---- MODULE Spec2Model ----
(***************************************************************************)
(* Hardware actuation layer of robot-frank:                                *)
(*   - SpiLedStrip (src/src/hardware/leds/handler.py): the WS2812 strip,   *)
(*     its animation thread and pause()/resume();                          *)
(*   - PCA9685 (src/src/hardware/adeept_robot_v3p1/servos/pca9685.py):     *)
(*     the register-level PWM driver;                                      *)
(*   - ServoDriver (src/src/hardware/adeept_robot_v3p1/servos/driver.py):  *)
(*     the calibrated angle/pulse mapping.                                 *)
(* Each subsystem has its own specifications over the shared variable      *)
(* list; a specification leaves the variables of the other subsystems      *)
(* unchanged:                                                              *)
(*   - SpecLed, FairSpecLed: the animation thread against pause()/resume();*)
(*   - SpecPixel: the pixel store used by one caller;                      *)
(*   - SpecPwm: PCA9685.set_pwm_on_channel called by two threads;          *)
(*   - SpecPca: PCA9685 constructed and driven by one caller;              *)
(*   - SpecStrip: pause()/resume() and the pixel store, thread not started;*)
(*   - SpecAnim: the animation thread alone;                               *)
(*   - SpecDemo: start_strip, with or without the demo, then the thread;   *)
(*   - SpecPack: the two bit packers;                                      *)
(*   - SpecServo, SpecHome: ServoDriver, without and with home_all;        *)
(*   - SpecMoves: all five commanding calls of ServoDriver;                *)
(*   - SpecDriver: construction and with-block of a ServoDriver.           *)
(***************************************************************************)
EXTENDS Integers, Sequences, FiniteSets, TLC

VARIABLES
    \* ---- SpiLedStrip ----
    led_color,      \* self.led_color: per pixel, the three wire-order bytes
    led_original,   \* self.led_original: per pixel, the scaled [r, g, b]
    flag,           \* self.flag (threading.Event): TRUE when set
    light_mode,     \* self.light_mode
    led_init_state, \* self.led_init_state: 1 when the SPI device is open
    apc,            \* animation thread: position in run()/_rainbow_cycle()
    start,          \* animation thread: loop variable of _rainbow_cycle
    ai,             \* animation thread: pixel index of the inner loop
    cpc,            \* caller thread: position in pause()
    ci,             \* caller thread: pixel index in _set_all_rgb
    inflight,       \* threads inside spi.xfer (transfer begun, not completed)
    lastFrame,      \* colour bytes of the transfer begun most recently
    lastSender,     \* thread that began that transfer
    \* ---- history of the LED run (observers of the claims) ----
    callsLeft,      \* pause()/resume() calls the caller may still make
    lastCall,       \* last public call made: "none", "pause" or "resume"
    pauseDone,      \* TRUE when the last pause() has returned, no resume() since
    lateFrames,     \* animation transfers begun since that pause() returned
    advanced,       \* increments of start since the last pause() returned
    awaitFirst,     \* TRUE from resume() after pause() to the next rainbow frame
    firstAfter,     \* value of advanced at that frame, -1 before
    pauseMid,       \* TRUE when the last pause() was called in the middle of a cycle
    exitedPaused,   \* TRUE once run() returned having observed the cleared flag
    \* ---- PCA9685 register driver, two caller threads ----
    regs,           \* device registers: register address -> byte
    ppc,            \* per thread: position in set_pwm_on_channel
    pargs,          \* per thread: channel and on_tick of the call in progress
    perr,           \* per thread: outcome of its last call
    pwrites,        \* per thread: the bus writes of its current or last call
    pcalls,         \* per thread: calls still to make
    lastInvoked,    \* per channel: on_tick of the call invoked last, -1 if none
    preq,           \* per thread: the channel argument of its last call
    \* ---- ServoDriver ----
    duty_cycle,     \* per channel: value last assigned to channels[ch].duty_cycle
    i2cWrites,      \* number of duty_cycle assignments issued to the bus
    serr,           \* outcome of the last ServoDriver call
    lastOp,         \* the last ServoDriver call: operation and arguments
    opsLeft,        \* ServoDriver calls still to make
    \* ---- single-caller use of the three classes ----
    brightness,     \* self.brightness of the strip
    pixOp,          \* the last pixel-store call: operation and arguments
    pixErr,         \* outcome of the last pixel-store call
    pixLeft,        \* pixel-store calls still to make
    pcaOp,          \* the last PCA9685 construction or set_pwm_freq call
    pcaLeft,        \* constructions and set_pwm_freq calls still to make
    attempted,      \* servo names home_all called set_angle for, in order
    prevCall,       \* the public strip call made before lastCall
    \* ---- the bit packers of the strip ----
    encIn,          \* colour bytes handed to the packer last
    encOut,         \* bytes the packer returned
    encMode,        \* packer used: "none", "8bit" or "4bit"
    \* ---- construction of a strip by start_strip ----
    ctor,           \* position in start_strip / SpiLedStrip.__init__
    demoReq,        \* the demo argument of start_strip
    demoXfers,      \* SPI transfers made by demo_startup
    \* ---- construction and scoped use of ServoDriver ----
    drv             \* ServoDriver: phase, missing keys, error, bus, table

ledVars == <<led_color, led_original, flag, light_mode, led_init_state, apc,
             start, ai, cpc, ci, inflight, lastFrame, lastSender>>
ledHist == <<callsLeft, lastCall, pauseDone, lateFrames, advanced, awaitFirst,
             firstAfter, pauseMid, exitedPaused>>
pwmVars == <<regs, ppc, pargs, perr, pwrites, pcalls, lastInvoked, preq>>
servoVars == <<duty_cycle, i2cWrites, serr, lastOp, opsLeft>>
callVars == <<brightness, pixOp, pixErr, pixLeft, pcaOp, pcaLeft, attempted>>
packVars == <<encIn, encOut, encMode>>
ctorVars == <<ctor, demoReq, demoXfers>>
seqVars == <<callVars, prevCall, packVars, ctorVars, drv>>
vars == <<ledVars, ledHist, pwmVars, servoVars, seqVars>>

(***************************************************************************)
(* Bounds of the model.                                                    *)
(***************************************************************************)
\* cfg["count"]: pixels of the strip
Count == 2
\* public calls (pause/resume) the caller thread makes in one run
MaxCalls == 3
\* pixel-store calls (_set_pixel, _set_all_rgb) of the single caller
MaxPixelOps == 2
\* PCA9685 constructions and set_pwm_freq calls of the single caller
MaxPcaOps == 2
\* colour bytes in one buffer handed to a bit packer
MaxPackLen == 2

(***************************************************************************)
(* Program constants.                                                      *)
(***************************************************************************)
\* range(256) of _rainbow_cycle and the modulus of the wheel position
WheelSize == 256
\* cfg.get("brightness", 255): the brightness of a strip configured without one
DefaultBrightness == 255

Pixels == 0 .. (Count - 1)

Min(a, b) == IF a < b THEN a ELSE b
Max(a, b) == IF a > b THEN a ELSE b

(***************************************************************************)
(* SpiLedStrip: colour order, pixel store, colour wheel.                   *)
(***************************************************************************)
\* self.led_type_offsets
LedTypeOffsets(t) ==
    CASE t = "RGB" -> 6
      [] t = "RBG" -> 9
      [] t = "GRB" -> 18
      [] t = "GBR" -> 33
      [] t = "BRG" -> 24
      [] t = "BGR" -> 36

\* set_led_type(rgb_type): the 0-based positions of red, green and blue in a
\* pixel's wire triple, two bits each of the table entry
SetLedType(t) ==
    LET o == LedTypeOffsets(t)
    IN  [red   |-> (o \div 16) % 4,
         green |-> (o \div 4) % 4,
         blue  |-> o % 4]

\* __init__(..., rgb_type="GRB"): start_strip never passes another type
RgbType == "GRB"
red_offset   == SetLedType(RgbType).red
green_offset == SetLedType(RgbType).green
blue_offset  == SetLedType(RgbType).blue

\* the colour value stored as given, without the brightness
ScaleOmitted(c) == c

\* int(c * self.brightness / 255), for c and brightness that are not negative
Scale(c) == (c * brightness) \div 255

\* _set_pixel: the wire triple of pixel idx after the three stores
SetPixelColor(old, r, g, b) ==
    LET s1 == [old EXCEPT ![red_offset + 1] = Scale(r)]
        s2 == [s1 EXCEPT ![green_offset + 1] = Scale(g)]
    IN  [s2 EXCEPT ![blue_offset + 1] = Scale(b)]

\* _set_pixel: the entry of led_original
SetPixelOriginal(r, g, b) == <<Scale(r), Scale(g), Scale(b)>>

\* _wheel(pos)
Wheel(pos) ==
    IF pos < 85 THEN <<255 - pos * 3, pos * 3, 0>>
    ELSE IF pos < 170 THEN <<0, 255 - (pos - 85) * 3, (pos - 85) * 3>>
    ELSE <<(pos - 170) * 3, 0, 255 - (pos - 170) * 3>>

\* the wheel position without the spread of the pixels over the wheel
WheelPosUnscaled(i, s) == (i + s) % WheelSize

\* _rainbow_cycle: the wheel position of pixel i in the frame of offset s
WheelPos(i, s) == ((i * 256) \div Count + s) % WheelSize

Black == <<0, 0, 0>>
BlackFrame == [i \in Pixels |-> Black]

\* the frame _rainbow_cycle composes for offset s
RainbowFrame(s) ==
    [i \in Pixels |->
        SetPixelColor(Black, Wheel(WheelPos(i, s))[1], Wheel(WheelPos(i, s))[2],
                      Wheel(WheelPos(i, s))[3])]

Bump(n) == Min(n + 1, 2)

(***************************************************************************)
(* PCA9685 register driver (pca9685.py).                                   *)
(***************************************************************************)
REGISTER_MODE1 == 0
REGISTER_PRESCALE == 254
REGISTER_LED0_ON_L == 6

\* calls each caller thread makes
MaxPwmCalls == 2

Threads == {"t1", "t2"}
\* arguments the callers pass: channels inside and outside 0..15, pulse widths
PwmChannelArgs == {-1, 0, 3, 15, 16}
PwmPulseArgs == {0, 100000, 200000, 5000000}

Channels == 0 .. 15
RegisterSet == {REGISTER_MODE1, REGISTER_PRESCALE}
                 \cup (REGISTER_LED0_ON_L .. (REGISTER_LED0_ON_L + 4 * 16 - 1))

\* _write: bus.write_byte_data(address, register, data)
WriteReg(r, register, data) == [r EXCEPT ![register] = data]

\* _soft_reset: MODE1 := 0x10, PRESCALE := 0xFF, MODE1 := read(MODE1) & 0x7F
SoftReset(r) ==
    LET r1 == WriteReg(r, REGISTER_MODE1, 16)
        r2 == WriteReg(r1, REGISTER_PRESCALE, 255)
    IN  WriteReg(r2, REGISTER_MODE1, r2[REGISTER_MODE1] % 128)

\* Python round(n / d) for d > 0: to nearest, ties to the even neighbour
RoundHalfEven(n, d) ==
    LET q == n \div d
        r == n % d
    IN  IF 2 * r < d THEN q
        ELSE IF 2 * r > d THEN q + 1
        ELSE IF q % 2 = 0 THEN q ELSE q + 1

\* set_pwm_on_channel: on_tick = int(round(pulse_us * 4096 / 1_000_000)),
\* clamped to the 12-bit range (4096 / 1_000_000 is written 64 / 15625, the
\* same ratio, so that the product stays within 32-bit integers)
OnTick(pulse_us) == Max(0, Min(4095, RoundHalfEven(pulse_us * 64, 15625)))

\* the register base with a stride of two registers per channel
RegBaseStride2(channel) == REGISTER_LED0_ON_L + channel * 2

\* set_pwm_on_channel: reg_base = REGISTER_LED0_ON_L + channel * 4
RegBase(channel) == REGISTER_LED0_ON_L + channel * 4

\* the bytes set_pwm_on_channel writes to ON_L and ON_H
LowByte(on_tick) == on_tick % 256
HighByte(on_tick) == on_tick \div 256

\* the check of the channel with its lower limit forgotten
ValidChannelNoLowerLimit(channel) == channel <= 15

\* if not (0 <= channel <= 15): raise ValueError
ValidChannel(channel) == 0 <= channel /\ channel <= 15

\* registers as PCA9685.__init__ leaves them (power-on content taken as 0)
PwmInit ==
    /\ regs = SoftReset([a \in RegisterSet |-> 0])
    /\ ppc = [t \in Threads |-> "idle"]
    /\ pargs = [t \in Threads |-> [channel |-> 0, on_tick |-> 0]]
    /\ perr = [t \in Threads |-> "none"]
    /\ pwrites = [t \in Threads |-> <<>>]
    /\ pcalls = [t \in Threads |-> MaxPwmCalls]
    /\ lastInvoked = [c \in Channels |-> -1]
    /\ preq = [t \in Threads |-> 0]

\* set_pwm_on_channel(channel, pulse_us) up to the first register write
SetChannelCall(t, channel, pulse_us) ==
    /\ ppc[t] = "idle"
    /\ pcalls[t] > 0
    /\ pcalls' = [pcalls EXCEPT ![t] = @ - 1]
    /\ pwrites' = [pwrites EXCEPT ![t] = <<>>]
    /\ preq' = [preq EXCEPT ![t] = channel]
    /\ IF ValidChannel(channel)
         THEN /\ pargs' = [pargs EXCEPT ![t] = [channel |-> channel,
                                                on_tick |-> OnTick(pulse_us)]]
              /\ ppc' = [ppc EXCEPT ![t] = "writeL"]
              /\ perr' = [perr EXCEPT ![t] = "none"]
              /\ lastInvoked' = [lastInvoked EXCEPT ![channel] = OnTick(pulse_us)]
         ELSE /\ perr' = [perr EXCEPT ![t] = "ValueError"]
              /\ UNCHANGED <<pargs, ppc, lastInvoked>>
    /\ UNCHANGED regs
    /\ UNCHANGED <<ledVars, ledHist, servoVars, seqVars>>

\* _write(bus, address, reg_base, on_tick & 0xFF)
WriteOnLow(t) ==
    /\ ppc[t] = "writeL"
    /\ regs' = WriteReg(regs, RegBase(pargs[t].channel), LowByte(pargs[t].on_tick))
    /\ pwrites' = [pwrites EXCEPT ![t] =
                      Append(@, <<RegBase(pargs[t].channel), LowByte(pargs[t].on_tick)>>)]
    /\ ppc' = [ppc EXCEPT ![t] = "writeH"]
    /\ UNCHANGED <<pargs, perr, pcalls, lastInvoked, preq>>
    /\ UNCHANGED <<ledVars, ledHist, servoVars, seqVars>>

\* _write(bus, address, reg_base + 1, on_tick >> 8); the call returns
WriteOnHigh(t) ==
    /\ ppc[t] = "writeH"
    /\ regs' = WriteReg(regs, RegBase(pargs[t].channel) + 1, HighByte(pargs[t].on_tick))
    /\ pwrites' = [pwrites EXCEPT ![t] =
                      Append(@, <<RegBase(pargs[t].channel) + 1, HighByte(pargs[t].on_tick)>>)]
    /\ ppc' = [ppc EXCEPT ![t] = "idle"]
    /\ UNCHANGED <<pargs, perr, pcalls, lastInvoked, preq>>
    /\ UNCHANGED <<ledVars, ledHist, servoVars, seqVars>>

PwmNext ==
    \/ \E t \in Threads, channel \in PwmChannelArgs, pulse_us \in PwmPulseArgs :
          SetChannelCall(t, channel, pulse_us)
    \/ \E t \in Threads : WriteOnLow(t)
    \/ \E t \in Threads : WriteOnHigh(t)

(***************************************************************************)
(* PCA9685 used by a single caller: construction, set_pwm_freq and         *)
(* set_pwm_on_channel, one call after the other.                           *)
(***************************************************************************)
\* the thread that makes the calls
Caller == "t1"

\* frequencies passed to set_pwm_freq, in thousandths of a hertz: 0.002 Hz,
\* 1 Hz, 24 Hz, 50 Hz (the servo default) and 1 kHz
FreqArgs == {2, 1000, 24000, 50000, 1000000}

\* the bus writes of _soft_reset, in order, as <<register, data>>; the read
\* of MODE1 returns the value written last
SoftResetWrites(r) ==
    LET r1 == WriteReg(r, REGISTER_MODE1, 16)
        r2 == WriteReg(r1, REGISTER_PRESCALE, 255)
    IN  << <<REGISTER_MODE1, 16>>,
           <<REGISTER_PRESCALE, 255>>,
           <<REGISTER_MODE1, r2[REGISTER_MODE1] % 128>> >>

\* set_pwm_freq: int(round((2400.0 / (4096.0 * freq)) - 1.0)) for freq given in
\* thousandths of a hertz: 2400 / (4096 * freq / 1000) - 1
\*   = (9375 - 16 * freq) / (16 * freq)
PrescaleVal(freq) == RoundHalfEven(9375 - 16 * freq, 16 * freq)

\* PCA9685(bus, address): __init__ runs _soft_reset on the device
Construct ==
    /\ ppc[Caller] = "idle"
    /\ pcaLeft > 0
    /\ pcaLeft' = pcaLeft - 1
    /\ pcaOp' = [op |-> "init", arg |-> 0]
    /\ regs' = SoftReset(regs)
    /\ pwrites' = [pwrites EXCEPT ![Caller] = SoftResetWrites(regs)]
    /\ UNCHANGED <<ppc, pargs, perr, pcalls, lastInvoked, preq>>
    /\ UNCHANGED <<ledVars, ledHist, servoVars>>
    /\ UNCHANGED <<brightness, pixOp, pixErr, pixLeft, attempted>>
    /\ UNCHANGED <<prevCall, packVars, ctorVars, drv>>

\* set_pwm_freq(freq): mode1 = read(MODE1) & 0x7F; write PRESCALE; write MODE1
SetPwmFreq(freq) ==
    /\ ppc[Caller] = "idle"
    /\ pcaLeft > 0
    /\ pcaLeft' = pcaLeft - 1
    /\ pcaOp' = [op |-> "set_pwm_freq", arg |-> freq]
    /\ LET prescale_val == PrescaleVal(freq)
           mode1 == regs[REGISTER_MODE1] % 128
       IN  /\ regs' = WriteReg(WriteReg(regs, REGISTER_PRESCALE, prescale_val),
                               REGISTER_MODE1, mode1)
           /\ pwrites' = [pwrites EXCEPT ![Caller] =
                             << <<REGISTER_PRESCALE, prescale_val>>,
                                <<REGISTER_MODE1, mode1>> >>]
    /\ UNCHANGED <<ppc, pargs, perr, pcalls, lastInvoked, preq>>
    /\ UNCHANGED <<ledVars, ledHist, servoVars>>
    /\ UNCHANGED <<brightness, pixOp, pixErr, pixLeft, attempted>>
    /\ UNCHANGED <<prevCall, packVars, ctorVars, drv>>

PcaNext ==
    \/ Construct
    \/ \E freq \in FreqArgs : SetPwmFreq(freq)
    \/ \E channel \in PwmChannelArgs, pulse_us \in PwmPulseArgs :
          SetChannelCall(Caller, channel, pulse_us)
    \/ WriteOnLow(Caller)
    \/ WriteOnHigh(Caller)

(***************************************************************************)
(* ServoDriver (driver.py).                                                *)
(***************************************************************************)
\* ServoDriver calls made in one run
MaxServoOps == 3

\* cfg["pwm"]["servos"] after _load_config (min_angle/max_angle defaulted),
\* in the order of the configuration file
ServoNames == <<"base_joint", "shoulder", "wrist">>
ServoTables ==
    [example |->
       [base_joint |-> [channel |-> 0, min_pulse |-> 150, max_pulse |-> 600,
                        default_angle |-> 90, min_angle |-> 0, max_angle |-> 180],
        shoulder   |-> [channel |-> 1, min_pulse |-> 100, max_pulse |-> 560,
                        default_angle |-> 45, min_angle |-> 10, max_angle |-> 170],
        wrist      |-> [channel |-> 3, min_pulse |-> 150, max_pulse |-> 600,
                        default_angle |-> 120, min_angle |-> 0, max_angle |-> 180]],
     narrow |->
       [base_joint |-> [channel |-> 4, min_pulse |-> 300, max_pulse |-> 300,
                        default_angle |-> 90, min_angle |-> 0, max_angle |-> 180],
        shoulder   |-> [channel |-> 5, min_pulse |-> 100, max_pulse |-> 560,
                        default_angle |-> 0, min_angle |-> 0 - 90, max_angle |-> 90],
        wrist      |-> [channel |-> 15, min_pulse |-> 0, max_pulse |-> 4095,
                        default_angle |-> 250, min_angle |-> 0, max_angle |-> 7]]]

\* the table of the configuration file the driver was constructed from
ServoDefs == ServoTables[drv.table]

\* arguments the callers pass
ServoNameArgs == {"base_joint", "shoulder", "wrist", "unknown_servo"}
AngleArgs == {-10, 0, 1, 10, 45, 90, 170, 180, 200}
PulseArgs == {0, 150, 375, 600, 700}

\* set_angle/set_pulse without the check of the name
KnownServoUnchecked(servo_name) == TRUE

\* servo_name in self._servo_defs
KnownServo(servo_name) == servo_name \in DOMAIN ServoDefs

\* self._servo_index[servo_name]: position in the stable order (1-based here,
\* 0 when the name has no entry, where the dict lookup raises KeyError)
servo_index(servo_name) ==
    IF \E i \in DOMAIN ServoNames : ServoNames[i] = servo_name
      THEN CHOOSE i \in DOMAIN ServoNames : ServoNames[i] = servo_name
      ELSE 0

\* self._channel_map[servo_name]
channel_map(servo_name) == ServoDefs[servo_name].channel

\* self._min_pulse[idx], self._max_pulse[idx], self._angle_limits[idx]
min_pulse(idx) == ServoDefs[ServoNames[idx]].min_pulse
max_pulse(idx) == ServoDefs[ServoNames[idx]].max_pulse
min_angle(idx) == ServoDefs[ServoNames[idx]].min_angle
max_angle(idx) == ServoDefs[ServoNames[idx]].max_angle

\* the angle used as given, without the clamp
ClampAngleOmitted(angle, idx) == angle

\* angle = max(min_angle, min(max_angle, angle))
ClampAngle(angle, idx) == Max(min_angle(idx), Min(max_angle(idx), angle))

\* the pulse used as given, without the clamp
ClampPulseOmitted(pulse, idx) == pulse

\* max(min_pulse, min(max_pulse, pulse))
ClampPulse(pulse, idx) == Max(min_pulse(idx), Min(max_pulse(idx), pulse))

\* int(x) for x = n / d with d > 0: truncation towards zero
TruncDiv(n, d) == IF n >= 0 THEN n \div d ELSE -((-n) \div d)

\* the interpolation rounded to the nearest integer instead of truncated
PulseFromAngleRounded(angle, idx) ==
    LET a == Max(min_angle(idx), Min(max_angle(idx), angle))
        d == max_angle(idx) - min_angle(idx)
    IN  (2 * (min_pulse(idx) * d
                + (a - min_angle(idx)) * (max_pulse(idx) - min_pulse(idx))) + d)
            \div (2 * d)

\* _pulse_from_angle(angle, idx):
\* int(min_us + (angle - min_angle) / (max_angle - min_angle) * (max_us - min_us))
\* after clamping the angle
PulseFromAngle(angle, idx) ==
    LET a == ClampAngle(angle, idx)
        d == max_angle(idx) - min_angle(idx)
    IN  TruncDiv(min_pulse(idx) * d
                   + (a - min_angle(idx)) * (max_pulse(idx) - min_pulse(idx)), d)

\* state after ServoDriver(): no channel commanded yet, ops calls to come
ServoStart(ops) ==
    /\ duty_cycle = [c \in Channels |-> -1]
    /\ i2cWrites = 0
    /\ serr = "none"
    /\ lastOp = [op |-> "none", name |-> "", arg |-> 0]
    /\ opsLeft = ops

ServoInit == ServoStart(MaxServoOps)

\* set_angle(servo_name, angle)
SetAngle(servo_name, angle) ==
    /\ opsLeft > 0
    /\ opsLeft' = opsLeft - 1
    /\ lastOp' = [op |-> "set_angle", name |-> servo_name, arg |-> angle]
    /\ IF ~KnownServo(servo_name)
         THEN /\ serr' = "ValueError"
              /\ UNCHANGED <<duty_cycle, i2cWrites>>
         ELSE LET idx == servo_index(servo_name)
              IN  IF idx = 0
                    THEN /\ serr' = "KeyError"
                         /\ UNCHANGED <<duty_cycle, i2cWrites>>
                    ELSE IF max_angle(idx) = min_angle(idx)
                    THEN /\ serr' = "ZeroDivisionError"
                         /\ UNCHANGED <<duty_cycle, i2cWrites>>
                    ELSE /\ duty_cycle' =
                              [duty_cycle EXCEPT ![channel_map(servo_name)] =
                                  PulseFromAngle(ClampAngle(angle, idx), idx)]
                         /\ i2cWrites' = i2cWrites + 1
                         /\ serr' = "ok"
    /\ UNCHANGED <<ledVars, ledHist, pwmVars, seqVars>>

\* set_pulse(servo_name, pulse)
SetPulse(servo_name, pulse) ==
    /\ opsLeft > 0
    /\ opsLeft' = opsLeft - 1
    /\ lastOp' = [op |-> "set_pulse", name |-> servo_name, arg |-> pulse]
    /\ IF ~KnownServo(servo_name)
         THEN /\ serr' = "ValueError"
              /\ UNCHANGED <<duty_cycle, i2cWrites>>
         ELSE LET idx == servo_index(servo_name)
              IN  IF idx = 0
                    THEN /\ serr' = "KeyError"
                         /\ UNCHANGED <<duty_cycle, i2cWrites>>
                    ELSE /\ duty_cycle' =
                              [duty_cycle EXCEPT ![channel_map(servo_name)] =
                                  ClampPulse(pulse, idx)]
                         /\ i2cWrites' = i2cWrites + 1
                         /\ serr' = "ok"
    /\ UNCHANGED <<ledVars, ledHist, pwmVars, seqVars>>

ServoNext ==
    \/ \E servo_name \in ServoNameArgs, angle \in AngleArgs :
          SetAngle(servo_name, angle)
    \/ \E servo_name \in ServoNameArgs, pulse \in PulseArgs :
          SetPulse(servo_name, pulse)

\* the default angle of the servo after the one asked for
DefaultAngleOfNext(idx) ==
    ServoDefs[ServoNames[(idx % Len(ServoNames)) + 1]].default_angle

\* self._default_angle[idx]
default_angle(idx) == ServoDefs[ServoNames[idx]].default_angle

\* the servos whose duty_cycle assignment the bus fails (OSError) during one
\* home_all: any subset of the configured servos
BusFailArgs == SUBSET {ServoNames[i] : i \in DOMAIN ServoNames}

\* home_all from the i-th servo on: set_angle(name, self._default_angle[idx])
\* for each servo in the order of the configuration; an exception raised by
\* set_angle is not caught and ends the loop
RECURSIVE HomeAllFrom(_, _, _)
HomeAllFrom(i, st, fail) ==
    IF i > Len(ServoNames) THEN st
    ELSE LET name == ServoNames[i]
             att == [st EXCEPT !.attempted = Append(@, name)]
         IN  IF max_angle(i) = min_angle(i)
               THEN [att EXCEPT !.err = "ZeroDivisionError"]
             ELSE IF name \in fail
               THEN [att EXCEPT !.err = "OSError", !.writes = @ + 1]
             ELSE HomeAllFrom(i + 1,
                      [att EXCEPT !.dc[channel_map(name)] =
                                      PulseFromAngle(ClampAngle(default_angle(i), i), i),
                                  !.writes = @ + 1],
                      fail)

\* home_all(), the bus failing the writes of the servos in fail
HomeAll(fail) ==
    /\ opsLeft > 0
    /\ opsLeft' = opsLeft - 1
    /\ lastOp' = [op |-> "home_all", name |-> "", arg |-> 0]
    /\ LET st == HomeAllFrom(1, [dc |-> duty_cycle, attempted |-> <<>>,
                                 writes |-> i2cWrites, err |-> "ok"], fail)
       IN  /\ duty_cycle' = st.dc
           /\ attempted' = st.attempted
           /\ i2cWrites' = st.writes
           /\ serr' = st.err
    /\ UNCHANGED <<ledVars, ledHist, pwmVars>>
    /\ UNCHANGED <<brightness, pixOp, pixErr, pixLeft, pcaOp, pcaLeft>>
    /\ UNCHANGED <<prevCall, packVars, ctorVars, drv>>

HomeNext ==
    \/ ServoNext
    \/ \E fail \in BusFailArgs : HomeAll(fail)

\* calls made in one run when all five commanding calls are available
MaxMoveOps == 2

\* arguments of set_angle_by_channel and set_all_angles
ChannelArgs == {0, 1, 2, 3, 5, 15}
SweepAngles == {0 - 10, 90, 200}
AllAnglesArgs == UNION {[1 .. n -> SweepAngles] : n \in 2 .. 3}

\* self._channel_to_name: {ch: name for name, info in ... if (ch := info.get("channel"))},
\* an entry for each servo whose channel number is truthy, i.e. not 0
channel_to_name ==
    [ch \in {ServoDefs[n].channel : n \in DOMAIN ServoDefs} \ {0} |->
        CHOOSE n \in DOMAIN ServoDefs : ServoDefs[n].channel = ch]

\* set_angle_by_channel(channel, angle)
SetAngleByChannel(channel, angle) ==
    /\ opsLeft > 0
    /\ opsLeft' = opsLeft - 1
    /\ lastOp' = [op |-> "set_angle_by_channel", name |-> "", arg |-> angle,
                  channel |-> channel]
    /\ IF channel \notin DOMAIN channel_to_name
         THEN /\ serr' = "ValueError"
              /\ UNCHANGED <<duty_cycle, i2cWrites>>
         ELSE LET idx == servo_index(channel_to_name[channel])
              IN  IF max_angle(idx) = min_angle(idx)
                    THEN /\ serr' = "ZeroDivisionError"
                         /\ UNCHANGED <<duty_cycle, i2cWrites>>
                    ELSE /\ duty_cycle' =
                              [duty_cycle EXCEPT ![channel] =
                                  PulseFromAngle(ClampAngle(angle, idx), idx)]
                         /\ i2cWrites' = i2cWrites + 1
                         /\ serr' = "ok"
    /\ UNCHANGED <<ledVars, ledHist, pwmVars, seqVars>>

\* set_all_angles from the i-th servo on: set_angle(name, angles[idx]) for
\* each servo in the order of the configuration; angles[idx] raises
\* IndexError past the end of the list and ends the loop
RECURSIVE SetAllAnglesFrom(_, _, _)
SetAllAnglesFrom(i, st, angles) ==
    IF i > Len(ServoNames) THEN st
    ELSE IF i > Len(angles) THEN [st EXCEPT !.err = "IndexError"]
    ELSE IF max_angle(i) = min_angle(i)
      THEN [st EXCEPT !.err = "ZeroDivisionError"]
    ELSE SetAllAnglesFrom(i + 1,
             [st EXCEPT !.dc[channel_map(ServoNames[i])] =
                             PulseFromAngle(ClampAngle(angles[i], i), i),
                        !.writes = @ + 1],
             angles)

\* set_all_angles(angles)
SetAllAngles(angles) ==
    /\ opsLeft > 0
    /\ opsLeft' = opsLeft - 1
    /\ lastOp' = [op |-> "set_all_angles", name |-> "", arg |-> angles]
    /\ LET st == SetAllAnglesFrom(1, [dc |-> duty_cycle, writes |-> i2cWrites,
                                      err |-> "ok"], angles)
       IN  /\ duty_cycle' = st.dc
           /\ i2cWrites' = st.writes
           /\ serr' = st.err
    /\ UNCHANGED <<ledVars, ledHist, pwmVars, seqVars>>

\* every call that commands a servo
MovesNext ==
    \/ ServoNext
    \/ \E fail \in BusFailArgs : HomeAll(fail)
    \/ \E channel \in ChannelArgs, angle \in AngleArgs :
          SetAngleByChannel(channel, angle)
    \/ \E angles \in AllAnglesArgs : SetAllAngles(angles)

(***************************************************************************)
(* Construction and scoped use of a ServoDriver.                           *)
(***************************************************************************)
\* the keys _load_config requires of every servo entry
RequiredKeys == {"channel", "min_pulse", "max_pulse", "default_angle"}

\* configuration files: complete, or one servo entry lacking some of the
\* required keys
ConfigArgs ==
    {[name |-> "", keys |-> {}]}
      \cup {[name |-> ServoNames[i], keys |-> K] :
                i \in DOMAIN ServoNames, K \in (SUBSET RequiredKeys) \ {{}}}

\* register-writing calls __init__ makes on the PCA9685 object:
\* PCA9685(self._bus, address=...) and self._pca.frequency = self.freq
PcaInitWrites == 2

\* a driver whose construction from the table has returned
DriverOpen(table) ==
    [phase |-> "open", missing |-> [name |-> "", keys |-> {}], err |-> "none",
     busOpen |-> TRUE, busWrites |-> PcaInitWrites, table |-> table]

\* _load_config with the loop over the servo entries left out
LoadConfigUnvalidated(missing) == TRUE

\* _load_config returns cfg: `if req not in info: raise KeyError` for no entry
LoadConfigAccepts(missing) == missing.keys = {}

\* __init__: cfg = _load_config()
LoadConfig ==
    /\ drv.phase = "new"
    /\ drv' = IF LoadConfigAccepts(drv.missing)
                THEN [drv EXCEPT !.phase = "loaded"]
                ELSE [drv EXCEPT !.phase = "failed", !.err = "KeyError"]
    /\ UNCHANGED <<ledVars, ledHist, pwmVars, servoVars>>
    /\ UNCHANGED <<callVars, prevCall, packVars, ctorVars>>

\* __init__: self._bus = board.I2C(); self._pca = PCA9685(self._bus, ...);
\* self._pca.frequency = self.freq
OpenBus ==
    /\ drv.phase = "loaded"
    /\ drv' = [drv EXCEPT !.phase = "bus", !.busOpen = TRUE,
                          !.busWrites = @ + PcaInitWrites]
    /\ UNCHANGED <<ledVars, ledHist, pwmVars, servoVars>>
    /\ UNCHANGED <<callVars, prevCall, packVars, ctorVars>>

\* __init__: the tables built from cfg["pwm"]["servos"]; info["channel"] and
\* the second validation raise KeyError for an entry lacking a required key
BuildTables ==
    /\ drv.phase = "bus"
    /\ drv' = IF drv.missing.keys = {}
                THEN [drv EXCEPT !.phase = "open"]
                ELSE [drv EXCEPT !.phase = "failed", !.err = "KeyError"]
    /\ UNCHANGED <<ledVars, ledHist, pwmVars, servoVars>>
    /\ UNCHANGED <<callVars, prevCall, packVars, ctorVars>>

\* the with-block ends, normally or by an exception: __exit__ calls close(),
\* whose body is the expression `self._pca.deinit`, which calls nothing
ExitWith(exc) ==
    /\ drv.phase = "open"
    /\ drv' = [drv EXCEPT !.phase = "exited",
                          !.err = IF exc THEN "raised" ELSE "none"]
    /\ UNCHANGED <<ledVars, ledHist, pwmVars, servoVars>>
    /\ UNCHANGED <<callVars, prevCall, packVars, ctorVars>>

\* calls made inside the with-block
DriverUse ==
    /\ drv.phase = "open"
    /\ ServoNext

DriverNext ==
    \/ LoadConfig
    \/ OpenBus
    \/ BuildTables
    \/ DriverUse
    \/ \E exc \in BOOLEAN : ExitWith(exc)

(***************************************************************************)
(* State after start_strip(cfg): constructed; the thread is started when   *)
(* the SPI device could be opened (led_init_state = 1).                    *)
(***************************************************************************)
LedInit ==
    /\ led_color = BlackFrame
    /\ led_original = BlackFrame
    /\ flag = TRUE
    /\ light_mode = "none"
    /\ led_init_state \in {0, 1}
    /\ apc = IF led_init_state = 1 THEN "check" ELSE "unstarted"
    /\ start = 0
    /\ ai = 0
    /\ cpc = "idle"
    /\ ci = 0
    /\ inflight = {}
    /\ lastFrame = BlackFrame
    /\ lastSender = "none"
    /\ callsLeft = MaxCalls
    /\ lastCall = "none"
    /\ pauseDone = FALSE
    /\ lateFrames = 0
    /\ advanced = 0
    /\ awaitFirst = FALSE
    /\ firstAfter = -1
    /\ pauseMid = FALSE
    /\ exitedPaused = FALSE

(***************************************************************************)
(* Animation thread: run() and _rainbow_cycle().                           *)
(***************************************************************************)
\* run(): while self.flag.is_set()
RunCheck ==
    /\ apc = "check"
    /\ IF flag
         THEN /\ apc' = "compose"
              /\ start' = 0
              /\ ai' = 0
              /\ UNCHANGED exitedPaused
         ELSE /\ apc' = "done"
              /\ exitedPaused' = TRUE
              /\ UNCHANGED <<start, ai>>
    /\ UNCHANGED <<led_color, led_original, flag, light_mode, led_init_state,
                   cpc, ci, inflight, lastFrame, lastSender>>
    /\ UNCHANGED <<callsLeft, lastCall, pauseDone, lateFrames, advanced,
                   awaitFirst, firstAfter, pauseMid>>
    /\ UNCHANGED <<pwmVars, servoVars, seqVars>>

\* _rainbow_cycle: one pass of the inner loop, self._set_pixel(i, *color)
RainbowSetPixel ==
    /\ apc = "compose"
    /\ LET c == Wheel(WheelPos(ai, start))
       IN  /\ led_color' = [led_color EXCEPT
                              ![ai] = SetPixelColor(led_color[ai], c[1], c[2], c[3])]
           /\ led_original' = [led_original EXCEPT
                              ![ai] = SetPixelOriginal(c[1], c[2], c[3])]
    /\ IF ai + 1 < Count
         THEN /\ ai' = ai + 1
              /\ apc' = "compose"
         ELSE /\ ai' = 0
              /\ apc' = "send"
    /\ UNCHANGED <<flag, light_mode, led_init_state, start, cpc, ci, inflight,
                   lastFrame, lastSender>>
    /\ UNCHANGED ledHist
    /\ UNCHANGED <<pwmVars, servoVars, seqVars>>

\* _rainbow_cycle: self._send_data() up to the call of spi.xfer
RainbowSendBegin ==
    /\ apc = "send"
    /\ IF led_init_state = 0
         THEN /\ apc' = "sleep"
              /\ UNCHANGED <<inflight, lastFrame, lastSender, lateFrames,
                             awaitFirst, firstAfter>>
         ELSE /\ apc' = "xfer"
              /\ inflight' = inflight \cup {"anim"}
              /\ lastFrame' = led_color
              /\ lastSender' = "anim"
              /\ lateFrames' = IF pauseDone THEN Bump(lateFrames) ELSE lateFrames
              /\ awaitFirst' = (awaitFirst /\ led_color # RainbowFrame(start))
              /\ firstAfter' = IF awaitFirst /\ led_color = RainbowFrame(start)
                                 THEN advanced ELSE firstAfter
    /\ UNCHANGED <<led_color, led_original, flag, light_mode, led_init_state,
                   start, ai, cpc, ci>>
    /\ UNCHANGED <<callsLeft, lastCall, pauseDone, advanced, pauseMid, exitedPaused>>
    /\ UNCHANGED <<pwmVars, servoVars, seqVars>>

\* spi.xfer returns in the animation thread
RainbowSendEnd ==
    /\ apc = "xfer"
    /\ inflight' = inflight \ {"anim"}
    /\ apc' = "sleep"
    /\ UNCHANGED <<led_color, led_original, flag, light_mode, led_init_state,
                   start, ai, cpc, ci, lastFrame, lastSender>>
    /\ UNCHANGED ledHist
    /\ UNCHANGED <<pwmVars, servoVars, seqVars>>

\* _rainbow_cycle: time.sleep returns, next value of `for start in range(256)`
RainbowNext ==
    /\ apc = "sleep"
    /\ IF start + 1 < WheelSize
         THEN /\ start' = start + 1
              /\ apc' = "compose"
         ELSE /\ start' = 0
              /\ apc' = "check"
    /\ ai' = 0
    /\ advanced' = Bump(advanced)
    /\ UNCHANGED <<led_color, led_original, flag, light_mode, led_init_state,
                   cpc, ci, inflight, lastFrame, lastSender>>
    /\ UNCHANGED <<callsLeft, lastCall, pauseDone, lateFrames, awaitFirst,
                   firstAfter, pauseMid, exitedPaused>>
    /\ UNCHANGED <<pwmVars, servoVars, seqVars>>

AnimStep ==
    \/ RunCheck
    \/ RainbowSetPixel
    \/ RainbowSendBegin
    \/ RainbowSendEnd
    \/ RainbowNext

(***************************************************************************)
(* Caller thread: pause() and resume().                                    *)
(***************************************************************************)
\* pause(): self.light_mode = "none"; self.flag.clear()
PauseCall ==
    /\ cpc = "idle"
    /\ callsLeft > 0
    /\ callsLeft' = callsLeft - 1
    /\ light_mode' = "none"
    /\ flag' = FALSE
    /\ cpc' = "fill"
    /\ ci' = 0
    /\ lastCall' = "pause"
    /\ pauseDone' = FALSE
    /\ lateFrames' = 0
    /\ advanced' = 0
    /\ awaitFirst' = FALSE
    /\ UNCHANGED <<led_color, led_original, led_init_state, apc, start, ai,
                   inflight, lastFrame, lastSender>>
    /\ pauseMid' = (apc \in {"compose", "send", "xfer", "sleep"})
    /\ prevCall' = lastCall
    /\ UNCHANGED <<firstAfter, exitedPaused>>
    /\ UNCHANGED <<pwmVars, servoVars>>
    /\ UNCHANGED <<callVars, packVars, ctorVars, drv>>

\* pause() -> _clear_strip -> _set_all_rgb(0, 0, 0): one pass of its loop
PauseSetPixel ==
    /\ cpc = "fill"
    /\ led_color' = [led_color EXCEPT ![ci] = SetPixelColor(led_color[ci], 0, 0, 0)]
    /\ led_original' = [led_original EXCEPT ![ci] = SetPixelOriginal(0, 0, 0)]
    /\ IF ci + 1 < Count
         THEN /\ ci' = ci + 1
              /\ cpc' = "fill"
         ELSE /\ ci' = 0
              /\ cpc' = "send"
    /\ UNCHANGED <<flag, light_mode, led_init_state, apc, start, ai, inflight,
                   lastFrame, lastSender>>
    /\ UNCHANGED ledHist
    /\ UNCHANGED <<pwmVars, servoVars, seqVars>>

\* pause() -> _set_all_rgb -> _send_data() up to the call of spi.xfer
PauseSendBegin ==
    /\ cpc = "send"
    /\ IF led_init_state = 0
         THEN /\ cpc' = "idle"
              /\ pauseDone' = TRUE
              /\ advanced' = 0
              /\ UNCHANGED <<inflight, lastFrame, lastSender>>
         ELSE /\ cpc' = "xfer"
              /\ inflight' = inflight \cup {"caller"}
              /\ lastFrame' = led_color
              /\ lastSender' = "caller"
              /\ UNCHANGED <<pauseDone, advanced>>
    /\ UNCHANGED <<led_color, led_original, flag, light_mode, led_init_state,
                   apc, start, ai, ci>>
    /\ UNCHANGED <<callsLeft, lastCall, lateFrames, awaitFirst, firstAfter,
                   pauseMid, exitedPaused>>
    /\ UNCHANGED <<pwmVars, servoVars, seqVars>>

\* spi.xfer returns in the caller thread; pause() returns
PauseSendEnd ==
    /\ cpc = "xfer"
    /\ inflight' = inflight \ {"caller"}
    /\ cpc' = "idle"
    /\ pauseDone' = TRUE
    /\ advanced' = 0
    /\ UNCHANGED <<led_color, led_original, flag, light_mode, led_init_state,
                   apc, start, ai, ci, lastFrame, lastSender>>
    /\ UNCHANGED <<callsLeft, lastCall, lateFrames, awaitFirst, firstAfter,
                   pauseMid, exitedPaused>>
    /\ UNCHANGED <<pwmVars, servoVars, seqVars>>

\* resume(): self.flag.set()
Resume ==
    /\ cpc = "idle"
    /\ callsLeft > 0
    /\ callsLeft' = callsLeft - 1
    /\ flag' = TRUE
    /\ awaitFirst' = (lastCall = "pause")
    /\ lastCall' = "resume"
    /\ pauseDone' = FALSE
    /\ UNCHANGED <<led_color, led_original, light_mode, led_init_state, apc,
                   start, ai, cpc, ci, inflight, lastFrame, lastSender>>
    /\ prevCall' = lastCall
    /\ UNCHANGED <<lateFrames, advanced, firstAfter, pauseMid, exitedPaused>>
    /\ UNCHANGED <<pwmVars, servoVars>>
    /\ UNCHANGED <<callVars, packVars, ctorVars, drv>>

CallerStep ==
    \/ PauseCall
    \/ PauseSetPixel
    \/ PauseSendBegin
    \/ PauseSendEnd
    \/ Resume

LedNext == AnimStep \/ CallerStep

(***************************************************************************)
(* The pixel store used by a single caller on a strip whose animation      *)
(* thread was not started: _set_pixel and _set_all_rgb.                    *)
(***************************************************************************)
\* cfg["brightness"] of the strips configured
BrightnessArgs == {0, 100, 128, 255}
\* colours and pixel indices the caller passes
ColourArgs == {<<255, 0, 0>>, <<0, 0, 0>>, <<10, 128, 255>>, <<1, 2, 3>>}
IndexArgs == (0 - 1) .. (Count + 1)

\* a list index that reaches one position past the end
IndexInRangeOffByOne(idx) == (0 - Count) <= idx /\ idx <= Count

\* self.led_original[idx] = ...: a Python list of self.count entries accepts
\* the indices -count .. count - 1 and raises IndexError for the others
IndexInRange(idx) == (0 - Count) <= idx /\ idx < Count

\* the entry a Python list index names: negative indices count from the end
ListIndex(idx) == IF idx < 0 THEN idx + Count ELSE idx

\* SpiLedStrip(cfg), the thread not started; calls: the pause()/resume()
\* calls the caller will make
StripUnstarted(calls) ==
    /\ led_color = BlackFrame
    /\ led_original = BlackFrame
    /\ flag = TRUE
    /\ light_mode = "none"
    /\ led_init_state \in {0, 1}
    /\ apc = "unstarted"
    /\ start = 0
    /\ ai = 0
    /\ cpc = "idle"
    /\ ci = 0
    /\ inflight = {}
    /\ lastFrame = BlackFrame
    /\ lastSender = "none"
    /\ callsLeft = calls
    /\ lastCall = "none"
    /\ pauseDone = FALSE
    /\ lateFrames = 0
    /\ advanced = 0
    /\ awaitFirst = FALSE
    /\ firstAfter = -1
    /\ pauseMid = FALSE
    /\ exitedPaused = FALSE

\* a strip on which only the pixel store is used
PixelInit == StripUnstarted(0)

\* _set_pixel(idx, r, g, b)
SetPixel(idx, rgb) ==
    /\ pixLeft > 0
    /\ pixLeft' = pixLeft - 1
    /\ pixOp' = [op |-> "set_pixel", idx |-> idx, rgb |-> rgb]
    /\ IF IndexInRange(idx)
         THEN /\ led_original' = [led_original EXCEPT ![ListIndex(idx)] =
                                     SetPixelOriginal(rgb[1], rgb[2], rgb[3])]
              /\ led_color' = [led_color EXCEPT ![ListIndex(idx)] =
                                  SetPixelColor(led_color[ListIndex(idx)],
                                                rgb[1], rgb[2], rgb[3])]
              /\ pixErr' = "ok"
         ELSE /\ pixErr' = "IndexError"
              /\ UNCHANGED <<led_color, led_original>>
    /\ UNCHANGED <<flag, light_mode, led_init_state, apc, start, ai, cpc, ci,
                   inflight, lastFrame, lastSender>>
    /\ lastCall' = pixOp'.op
    /\ prevCall' = lastCall
    /\ UNCHANGED <<callsLeft, pauseDone, lateFrames, advanced, awaitFirst,
                   firstAfter, pauseMid, exitedPaused>>
    /\ UNCHANGED <<pwmVars, servoVars>>
    /\ UNCHANGED <<brightness, pcaOp, pcaLeft, attempted>>
    /\ UNCHANGED <<packVars, ctorVars, drv>>

\* _set_all_rgb(r, g, b): _set_pixel for every pixel, then _send_data, which
\* transmits the buffer when the SPI device is open
SetAllRgb(rgb) ==
    /\ pixLeft > 0
    /\ pixLeft' = pixLeft - 1
    /\ pixOp' = [op |-> "fill", idx |-> 0, rgb |-> rgb]
    /\ led_original' = [i \in Pixels |-> SetPixelOriginal(rgb[1], rgb[2], rgb[3])]
    /\ led_color' = [i \in Pixels |->
                        SetPixelColor(led_color[i], rgb[1], rgb[2], rgb[3])]
    /\ pixErr' = "ok"
    /\ IF led_init_state = 1
         THEN /\ lastFrame' = led_color'
              /\ lastSender' = "caller"
         ELSE UNCHANGED <<lastFrame, lastSender>>
    /\ UNCHANGED <<flag, light_mode, led_init_state, apc, start, ai, cpc, ci,
                   inflight>>
    /\ lastCall' = pixOp'.op
    /\ prevCall' = lastCall
    /\ UNCHANGED <<callsLeft, pauseDone, lateFrames, advanced, awaitFirst,
                   firstAfter, pauseMid, exitedPaused>>
    /\ UNCHANGED <<pwmVars, servoVars>>
    /\ UNCHANGED <<brightness, pcaOp, pcaLeft, attempted>>
    /\ UNCHANGED <<packVars, ctorVars, drv>>

PixelNext ==
    \/ \E idx \in IndexArgs, rgb \in ColourArgs : SetPixel(idx, rgb)
    \/ \E rgb \in ColourArgs : SetAllRgb(rgb)

\* one caller using the pixel store, pause() and resume(), each call made
\* after the one before has returned
StripNext ==
    \/ (cpc = "idle" /\ PixelNext)
    \/ CallerStep

(***************************************************************************)
(* The bit packers _pack_8bit and _pack_4bit (static methods).             *)
(***************************************************************************)
\* colour bytes of the longer buffers
ByteArgs == {0, 1, 27, 128, 170, 255}
\* the buffers packed: every single byte, and the buffers of up to
\* MaxPackLen bytes over ByteArgs
PackInputs ==
    {<<c>> : c \in 0 .. 255}
      \cup UNION {[1 .. n -> ByteArgs] : n \in 1 .. MaxPackLen}

\* the 8-bit packer filling each group of eight from its last byte
Pack8bitLsbFirst(colour_bytes) ==
    [p \in 1 .. (Len(colour_bytes) * 8) |->
        LET c == colour_bytes[((p - 1) \div 8) + 1]
            ibit == (p - 1) % 8
        IN  ((c \div (2 ^ ibit)) % 2) * 120 + 128]

\* _pack_8bit: tx[7 - ibit :: 8] = [((c >> ibit) & 1) * 0x78 + 0x80 ...] for
\* ibit in range(8); p is the 1-based position in tx
Pack8bit(colour_bytes) ==
    [p \in 1 .. (Len(colour_bytes) * 8) |->
        LET c == colour_bytes[((p - 1) \div 8) + 1]
            ibit == 7 - ((p - 1) % 8)
        IN  ((c \div (2 ^ ibit)) % 2) * 120 + 128]

\* the 4-bit packer giving both bits of a pair the same weight
Pack4bitSameWeight(colour_bytes) ==
    [p \in 1 .. (Len(colour_bytes) * 4) |->
        LET c == colour_bytes[((p - 1) \div 4) + 1]
            ibit == 3 - ((p - 1) % 4)
        IN  ((c \div (2 ^ (2 * ibit + 1))) % 2) * 96
              + ((c \div (2 ^ (2 * ibit))) % 2) * 96 + 136]

\* _pack_4bit: tx[3 - ibit :: 4] = ((c >> (2*ibit+1)) & 1) * 0x60
\*   + ((c >> (2*ibit)) & 1) * 0x06 + 0x88 for ibit in range(4)
Pack4bit(colour_bytes) ==
    [p \in 1 .. (Len(colour_bytes) * 4) |->
        LET c == colour_bytes[((p - 1) \div 4) + 1]
            ibit == 3 - ((p - 1) % 4)
        IN  ((c \div (2 ^ (2 * ibit + 1))) % 2) * 96
              + ((c \div (2 ^ (2 * ibit))) % 2) * 6 + 136]

\* _pack_8bit(colour_bytes)
Pack8(colour_bytes) ==
    /\ encIn' = colour_bytes
    /\ encOut' = Pack8bit(colour_bytes)
    /\ encMode' = "8bit"
    /\ UNCHANGED <<ledVars, ledHist, pwmVars, servoVars>>
    /\ UNCHANGED <<callVars, prevCall, ctorVars, drv>>

\* _pack_4bit(colour_bytes)
Pack4(colour_bytes) ==
    /\ encIn' = colour_bytes
    /\ encOut' = Pack4bit(colour_bytes)
    /\ encMode' = "4bit"
    /\ UNCHANGED <<ledVars, ledHist, pwmVars, servoVars>>
    /\ UNCHANGED <<callVars, prevCall, ctorVars, drv>>

PackNext ==
    \/ \E colour_bytes \in PackInputs : Pack8(colour_bytes)
    \/ \E colour_bytes \in PackInputs : Pack4(colour_bytes)

(***************************************************************************)
(* Construction of a strip: start_strip(cfg, demo), which runs             *)
(* SpiLedStrip.__init__ (demo_startup if asked for, then _open_spi) and    *)
(* starts the thread when the SPI device is open.                          *)
(***************************************************************************)
\* range(0, 256, 15) and range(255, -1, -15): 18 intensities each
DemoRampSteps == (255 \div 15) + 1
\* range(0, 256, 16): 16 offsets
DemoSweepSteps == ((255 \div 16) + 1)
\* frames of the demo: both ramps, the sweep, the final black frame
DemoFrames == 2 * DemoRampSteps + DemoSweepSteps + 1

\* every pixel after _set_all_rgb(v, v, v)
FillColor(v) == [i \in Pixels |-> SetPixelColor(led_color[i], v, v, v)]
FillOriginal(v) == [i \in Pixels |-> SetPixelOriginal(v, v, v)]

\* _send_data() called n times on the frame during construction:
\* `if not self.led_init_state: return`
DemoSend(frame, n) ==
    IF led_init_state = 1
      THEN /\ lastFrame' = frame
           /\ lastSender' = "demo"
           /\ demoXfers' = demoXfers + n
      ELSE UNCHANGED <<lastFrame, lastSender, demoXfers>>

\* __init__: `if demo: self.demo_startup()`
CtorBegin ==
    /\ ctor.pc = "init"
    /\ ctor' = [pc |-> IF demoReq THEN "ramp_up" ELSE "open_spi", k |-> 0]
    /\ UNCHANGED <<ledVars, ledHist, pwmVars, servoVars>>
    /\ UNCHANGED <<callVars, prevCall, packVars, demoReq, demoXfers, drv>>

\* demo_startup: one pass of a white-pulse loop, _set_all_rgb (which sends)
\* followed by _send_data
DemoRamp(intensity, nextpc) ==
    /\ led_color' = FillColor(intensity)
    /\ led_original' = FillOriginal(intensity)
    /\ DemoSend(led_color', 2)
    /\ ctor' = IF ctor.k + 1 < DemoRampSteps
                 THEN [ctor EXCEPT !.k = ctor.k + 1]
                 ELSE [pc |-> nextpc, k |-> 0]
    /\ UNCHANGED <<flag, light_mode, led_init_state, apc, start, ai, cpc, ci,
                   inflight>>
    /\ UNCHANGED <<ledHist, pwmVars, servoVars>>
    /\ UNCHANGED <<callVars, prevCall, packVars, demoReq, drv>>

\* for intensity in range(0, 256, 15)
DemoRampUp ==
    /\ ctor.pc = "ramp_up"
    /\ DemoRamp(15 * ctor.k, "ramp_down")

\* for intensity in range(255, -1, -15)
DemoRampDown ==
    /\ ctor.pc = "ramp_down"
    /\ DemoRamp(255 - 15 * ctor.k, "sweep")

\* demo_startup: one pass of `for offset in range(0, 256, 16)`
DemoSweep ==
    /\ ctor.pc = "sweep"
    /\ led_color' = [i \in Pixels |->
                       LET c == Wheel(WheelPos(i, 16 * ctor.k))
                       IN  SetPixelColor(led_color[i], c[1], c[2], c[3])]
    /\ led_original' = [i \in Pixels |->
                          LET c == Wheel(WheelPos(i, 16 * ctor.k))
                          IN  SetPixelOriginal(c[1], c[2], c[3])]
    /\ DemoSend(led_color', 1)
    /\ ctor' = IF ctor.k + 1 < DemoSweepSteps
                 THEN [ctor EXCEPT !.k = ctor.k + 1]
                 ELSE [pc |-> "clear", k |-> 0]
    /\ UNCHANGED <<flag, light_mode, led_init_state, apc, start, ai, cpc, ci,
                   inflight>>
    /\ UNCHANGED <<ledHist, pwmVars, servoVars>>
    /\ UNCHANGED <<callVars, prevCall, packVars, demoReq, drv>>

\* demo_startup: self._clear_strip(); self.flag.set()
DemoClear ==
    /\ ctor.pc = "clear"
    /\ led_color' = FillColor(0)
    /\ led_original' = FillOriginal(0)
    /\ DemoSend(led_color', 1)
    /\ flag' = TRUE
    /\ ctor' = [pc |-> "open_spi", k |-> 0]
    /\ UNCHANGED <<light_mode, led_init_state, apc, start, ai, cpc, ci, inflight>>
    /\ UNCHANGED <<ledHist, pwmVars, servoVars>>
    /\ UNCHANGED <<callVars, prevCall, packVars, demoReq, drv>>

\* __init__: self._open_spi(), led_init_state = 1 unless spi.open raises OSError
OpenSpi ==
    /\ ctor.pc = "open_spi"
    /\ led_init_state' \in {0, 1}
    /\ ctor' = [pc |-> "constructed", k |-> 0]
    /\ UNCHANGED <<led_color, led_original, flag, light_mode, apc, start, ai,
                   cpc, ci, inflight, lastFrame, lastSender>>
    /\ UNCHANGED <<ledHist, pwmVars, servoVars>>
    /\ UNCHANGED <<callVars, prevCall, packVars, demoReq, demoXfers, drv>>

\* start_strip: `if strip.led_init_state: strip.start()`; return strip
StartStrip ==
    /\ ctor.pc = "constructed"
    /\ apc' = IF led_init_state = 1 THEN "check" ELSE apc
    /\ ctor' = [pc |-> "returned", k |-> 0]
    /\ UNCHANGED <<led_color, led_original, flag, light_mode, led_init_state,
                   start, ai, cpc, ci, inflight, lastFrame, lastSender>>
    /\ UNCHANGED <<ledHist, pwmVars, servoVars>>
    /\ UNCHANGED <<callVars, prevCall, packVars, demoReq, demoXfers, drv>>

CtorStep ==
    \/ CtorBegin
    \/ DemoRampUp
    \/ DemoRampDown
    \/ DemoSweep
    \/ DemoClear
    \/ OpenSpi
    \/ StartStrip

\* construction, then the animation thread
DemoNext == CtorStep \/ AnimStep

(***************************************************************************)
(* Specifications: one per subsystem.                                      *)
(***************************************************************************)
\* no single-caller call made yet; the strip has brightness b
SeqInitWith(b) ==
    /\ brightness = b
    /\ pixOp = [op |-> "none", idx |-> 0, rgb |-> <<0, 0, 0>>]
    /\ pixErr = "none"
    /\ pixLeft = MaxPixelOps
    /\ pcaOp = [op |-> "none", arg |-> 0]
    /\ pcaLeft = MaxPcaOps
    /\ attempted = <<>>
    /\ prevCall = "none"
    /\ encIn = <<>>
    /\ encOut = <<>>
    /\ encMode = "none"

\* a strip configured without a brightness
SeqInit == SeqInitWith(DefaultBrightness)

\* start_strip(cfg) has returned, no demo having been asked for
CtorInit ==
    /\ ctor = [pc |-> "returned", k |-> 0]
    /\ demoReq = FALSE
    /\ demoXfers = 0

\* ServoDriver() has returned: configuration accepted, bus open
DrvInit == drv = DriverOpen("example")

\* every subsystem constructed, no call made yet
Init == LedInit /\ PwmInit /\ ServoInit /\ SeqInit /\ CtorInit /\ DrvInit

\* the same with the strip's SPI device open
InitStripOpen ==
    /\ LedInit
    /\ led_init_state = 1
    /\ PwmInit
    /\ ServoInit
    /\ SeqInit
    /\ CtorInit
    /\ DrvInit

SpecLed == Init /\ [][LedNext]_vars

SpecPwm == InitStripOpen /\ [][PwmNext]_vars

SpecServo == InitStripOpen /\ [][ServoNext]_vars

\* a strip of any configured brightness, its thread not started
InitPixel ==
    /\ PixelInit
    /\ PwmInit
    /\ ServoInit
    /\ \E b \in BrightnessArgs : SeqInitWith(b)
    /\ CtorInit
    /\ DrvInit

\* the pixel store driven by one caller
SpecPixel == InitPixel /\ [][PixelNext]_vars

\* a strip of any configured brightness, its thread not started, on which
\* pause() and resume() will be called
InitStrip ==
    /\ StripUnstarted(MaxCalls)
    /\ PwmInit
    /\ ServoInit
    /\ \E b \in BrightnessArgs : SeqInitWith(b)
    /\ CtorInit
    /\ DrvInit

\* the strip driven by one caller, no animation thread running
SpecStrip == InitStrip /\ [][StripNext]_vars

\* start_strip(cfg, demo) has been called, with or without the demo
InitDemo ==
    /\ StripUnstarted(0)
    /\ led_init_state = 0
    /\ PwmInit
    /\ ServoInit
    /\ SeqInit
    /\ ctor = [pc |-> "init", k |-> 0]
    /\ demoReq \in BOOLEAN
    /\ demoXfers = 0
    /\ DrvInit

\* construction of a strip followed by its animation
SpecDemo == InitDemo /\ [][DemoNext]_vars

\* a driver constructed from any of the tables
InitMoves ==
    /\ LedInit
    /\ led_init_state = 1
    /\ PwmInit
    /\ ServoStart(MaxMoveOps)
    /\ SeqInit
    /\ CtorInit
    /\ \E t \in DOMAIN ServoTables : drv = DriverOpen(t)

\* all the commanding calls of a ServoDriver, one caller
SpecMoves == InitMoves /\ [][MovesNext]_vars

\* ServoDriver() is being called on some configuration file
InitDriver ==
    /\ LedInit
    /\ led_init_state = 1
    /\ PwmInit
    /\ ServoInit
    /\ SeqInit
    /\ CtorInit
    /\ \E m \in ConfigArgs :
          drv = [phase |-> "new", missing |-> m, err |-> "none",
                 busOpen |-> FALSE, busWrites |-> 0, table |-> "example"]

\* `with ServoDriver() as driver:` and the calls of its block
SpecDriver == InitDriver /\ [][DriverNext]_vars

\* the animation thread alone, no pause() or resume() being called
SpecAnim == InitStripOpen /\ [][AnimStep]_vars

\* the bit packers applied to buffers of colour bytes
SpecPack == InitStripOpen /\ [][PackNext]_vars

\* PCA9685 driven by one caller
SpecPca == InitStripOpen /\ [][PcaNext]_vars

\* ServoDriver with home_all, on a bus that may fail writes
SpecHome == InitStripOpen /\ [][HomeNext]_vars

\* the OS schedules the animation thread as long as it has a step to take
FairSpecLed == SpecLed /\ WF_vars(AnimStep)

(***************************************************************************)
(* Claims about the animation loop.                                        *)
(***************************************************************************)
\* nothing can be transmitted any more unless a public call is made
LedQuiescent == apc = "done" /\ cpc = "idle" /\ inflight = {}

\* C1: when pause() was called in the middle of a rainbow cycle and resume()
\* was not called afterwards, the last frame ever transmitted is all black:
\* once the animation thread has ended and pause() has returned, the frame
\* transmitted last is the black frame.
C1_LastFrameBlackAfterPause ==
    (lastCall = "pause" /\ pauseMid /\ LedQuiescent) => lastFrame = BlackFrame

\* C2: once pause() has returned (and until resume()), the animation loop
\* begins the transfer of at most one more frame, the one in flight.
C2_AtMostInFlightFrameAfterPause == lateFrames <= 1

\* C3: the first rainbow frame transmitted after pause() then resume() has the
\* offset the animation had reached before the pause, or its successor: start
\* was incremented at most once between the return of pause() and that frame.
C3_ResumeContinuesFromPrePauseOffset == firstAfter \in {-1, 0, 1}

\* C4: when the loop has observed the cleared flag and resume() is called
\* after the pause(), a rainbow frame is eventually transmitted again (or the
\* caller pauses again), the animation thread being scheduled fairly.
C4_ResumeReentersRunning ==
    (exitedPaused /\ lastCall = "resume" /\ awaitFirst) ~> (~awaitFirst)

\* C5: frame transmissions of the strip are strictly sequential: no transfer
\* begins while another one has begun and not completed.
C5_TransfersSequential == Cardinality(inflight) <= 1

(***************************************************************************)
(* Claims about the PCA9685 register driver under concurrent callers.      *)
(***************************************************************************)
\* C6: the register writes of one set_channel call (low byte, then high
\* byte) are never interleaved with those of a concurrent call on another
\* channel: no two calls are between their two writes at the same time.
C6_RegisterWritesNotInterleaved ==
    \A a, b \in Threads :
        (a # b /\ ppc[a] = "writeH" /\ pargs[a].channel # pargs[b].channel)
            => ppc[b] # "writeH"

\* C7: once every set_channel call has completed, the on-time register pair
\* of each channel holds the low and high bytes of the duty of the call that
\* was invoked last on that channel.
C7_LastInvokedDutyInRegisters ==
    (\A t \in Threads : ppc[t] = "idle") =>
        \A c \in Channels :
            lastInvoked[c] # -1 =>
                /\ regs[RegBase(c)] = LowByte(lastInvoked[c])
                /\ regs[RegBase(c) + 1] = HighByte(lastInvoked[c])

(***************************************************************************)
(* Claims about ServoDriver.                                               *)
(***************************************************************************)
\* C8: set_angle and set_pulse with a name that is not in the calibration
\* table fail with the unknown-actuator error (ValueError), issue no bus
\* write and leave the commanded value of every channel unchanged.
C8_UnknownServoRejected ==
    [][(opsLeft' < opsLeft /\ lastOp'.name \notin DOMAIN ServoDefs)
          => (/\ serr' = "ValueError"
              /\ i2cWrites' = i2cWrites
              /\ duty_cycle' = duty_cycle)]_vars

\* an unknown name was rejected after another servo had been commanded
C8_Witness ==
    /\ lastOp.name = "unknown_servo"
    /\ serr = "ValueError"
    /\ i2cWrites > 0
    /\ \E c \in Channels : duty_cycle[c] # -1

\* C9: set_angle never raises for an out-of-range angle of a configured
\* servo; an angle below min_angle commands the pulse of min_angle, an angle
\* above max_angle commands the pulse of max_angle.
C9_AngleClampedBeforeInterpolation ==
    (lastOp.op = "set_angle" /\ lastOp.name \in DOMAIN ServoDefs) =>
        LET idx == servo_index(lastOp.name)
            ch == ServoDefs[lastOp.name].channel
        IN  /\ serr = "ok"
            /\ lastOp.arg < min_angle(idx)
                 => duty_cycle[ch] = PulseFromAngle(min_angle(idx), idx)
            /\ lastOp.arg > max_angle(idx)
                 => duty_cycle[ch] = PulseFromAngle(max_angle(idx), idx)

\* shoulder (angles 10..170) was asked for 1 degree and got the pulse of 10
C9_Witness ==
    /\ lastOp = [op |-> "set_angle", name |-> "shoulder", arg |-> 1]
    /\ serr = "ok"
    /\ duty_cycle[1] = 100

\* the exact value of the interpolation for the last set_angle, times d
ExactPulseTimesD(name, angle) ==
    ServoDefs[name].min_pulse * (ServoDefs[name].max_angle - ServoDefs[name].min_angle)
      + (angle - ServoDefs[name].min_angle)
          * (ServoDefs[name].max_pulse - ServoDefs[name].min_pulse)

InRangeSetAngle ==
    /\ lastOp.op = "set_angle"
    /\ lastOp.name \in DOMAIN ServoDefs
    /\ ServoDefs[lastOp.name].min_angle <= lastOp.arg
    /\ lastOp.arg <= ServoDefs[lastOp.name].max_angle

\* C10 as stated: for an angle within [min_angle, max_angle] set_angle
\* commands exactly min_pulse + (angle - min_angle) / (max_angle - min_angle)
\* * (max_pulse - min_pulse) on the servo's channel.
C10_ExactLinearPulse ==
    InRangeSetAngle =>
        duty_cycle[ServoDefs[lastOp.name].channel]
              * (ServoDefs[lastOp.name].max_angle - ServoDefs[lastOp.name].min_angle)
            = ExactPulseTimesD(lastOp.name, lastOp.arg)

\* C10 amended: for an angle within [min_angle, max_angle] set_angle commands,
\* on the servo's channel, the interpolated pulse truncated to an integer;
\* min_angle gives min_pulse, max_angle gives max_pulse, and wrist (channel 3,
\* pulses 150..600, angles 0..180) at 90 degrees gets 375 on channel 3.
C10_TruncatedLinearPulse ==
    InRangeSetAngle =>
        LET def == ServoDefs[lastOp.name]
            p == duty_cycle[def.channel]
            d == def.max_angle - def.min_angle
        IN  /\ serr = "ok"
            /\ p * d <= ExactPulseTimesD(lastOp.name, lastOp.arg)
            /\ ExactPulseTimesD(lastOp.name, lastOp.arg) < (p + 1) * d
            /\ lastOp.arg = def.min_angle => p = def.min_pulse
            /\ lastOp.arg = def.max_angle => p = def.max_pulse
            /\ (lastOp.name = "wrist" /\ lastOp.arg = 90) => duty_cycle[3] = 375

\* wrist was moved to 90 degrees and channel 3 holds 375
C10_Witness ==
    /\ lastOp = [op |-> "set_angle", name |-> "wrist", arg |-> 90]
    /\ duty_cycle[3] = 375
    /\ serr = "ok"

\* C11: set_pulse for a configured servo never raises for an out-of-range
\* pulse and assigns, on the channel of that servo and on no other, the
\* requested pulse itself limited to [min_pulse, max_pulse] of that servo.
C11_PulseClampedOnChannel ==
    [][(opsLeft' < opsLeft /\ lastOp'.op = "set_pulse"
            /\ lastOp'.name \in DOMAIN ServoDefs)
          => LET def == ServoDefs[lastOp'.name]
                 want == IF lastOp'.arg < def.min_pulse THEN def.min_pulse
                         ELSE IF lastOp'.arg > def.max_pulse THEN def.max_pulse
                         ELSE lastOp'.arg
             IN  /\ serr' = "ok"
                 /\ duty_cycle' = [duty_cycle EXCEPT ![def.channel] = want]
                 /\ i2cWrites' = i2cWrites + 1]_vars

\* shoulder (pulses 100..560) was asked for 700 and got 560 on channel 1
C11_Witness ==
    /\ lastOp = [op |-> "set_pulse", name |-> "shoulder", arg |-> 700]
    /\ serr = "ok"
    /\ duty_cycle[1] = 560

\* C12: when home_all() has completed, every configured servo has been
\* commanded, on its own channel, to the pulse of its own default_angle (the
\* interpolation at default_angle, as an integer), whatever was commanded
\* before.
C12_HomeAllCommandsDefaults ==
    (lastOp.op = "home_all" /\ serr = "ok") =>
        /\ attempted = ServoNames
        /\ \A name \in DOMAIN ServoDefs :
              LET def == ServoDefs[name]
                  p == duty_cycle[def.channel]
                  d == def.max_angle - def.min_angle
              IN  /\ p * d <= ExactPulseTimesD(name, def.default_angle)
                  /\ ExactPulseTimesD(name, def.default_angle) < (p + 1) * d

\* home_all completed after other positions had been commanded: base_joint
\* at 90 degrees holds 375, shoulder at 45 holds 200, wrist at 120 holds 450
C12_Witness ==
    /\ lastOp.op = "home_all"
    /\ serr = "ok"
    /\ i2cWrites > Len(ServoNames)
    /\ duty_cycle[0] = 375 /\ duty_cycle[1] = 200 /\ duty_cycle[3] = 450

\* C13: home_all attempts the move of every configured servo, in the order
\* of the configuration, also when the move of one of them fails.
C13_HomeAllBestEffort ==
    lastOp.op = "home_all" => attempted = ServoNames

(***************************************************************************)
(* Claims about the PCA9685 register driver used by one caller.            *)
(***************************************************************************)
\* C14: set_pwm_on_channel with a channel outside 0..15 fails with the
\* invalid-channel error (ValueError) and attempts no register write; with a
\* channel in 0..15 it does not fail with that error.
C14_InvalidChannelRejected ==
    [][\A t \in Threads :
          pcalls'[t] < pcalls[t] =>
              IF preq'[t] < 0 \/ preq'[t] > 15
                THEN /\ perr'[t] = "ValueError"
                     /\ regs' = regs
                     /\ pwrites'[t] = <<>>
                     /\ ppc'[t] = "idle"
                ELSE perr'[t] # "ValueError"]_vars

\* channel 16 was rejected after channel 3 had been programmed with 410
C14_Witness ==
    /\ preq[Caller] = 16
    /\ perr[Caller] = "ValueError"
    /\ ppc[Caller] = "idle"
    /\ regs[18] = 154 /\ regs[19] = 1

\* C15: a successful set_pwm_on_channel(channel, ...) writes register
\* 0x06 + 4 * channel and then register 0x07 + 4 * channel, with the low and
\* high bytes of a value in 0..4095, and no other register: every other
\* register, the off-time registers of the channel included, keeps its value.
C15_OnlyOnTimeRegistersWritten ==
    [][\A t \in Threads :
          /\ (ppc[t] = "idle" /\ ppc'[t] = "writeL") => regs' = regs
          /\ (ppc[t] = "writeL" /\ ppc'[t] = "writeH") =>
                \E lo \in 0 .. 255 :
                    /\ regs' = [regs EXCEPT ![6 + 4 * preq[t]] = lo]
                    /\ pwrites'[t] = << <<6 + 4 * preq[t], lo>> >>
          /\ (ppc[t] = "writeH" /\ ppc'[t] = "idle") =>
                \E hi \in 0 .. 15 :
                    /\ regs' = [regs EXCEPT ![7 + 4 * preq[t]] = hi]
                    /\ pwrites'[t] = Append(pwrites[t], <<7 + 4 * preq[t], hi>>)
                    /\ Len(pwrites'[t]) = 2]_vars

\* channel 3 received 410 = 0x019A in registers 18 and 19, its off-time
\* registers 20 and 21 still hold 0, and channel 15 had been written before
C15_Witness ==
    /\ ppc[Caller] = "idle"
    /\ pwrites[Caller] = << <<18, 154>>, <<19, 1>> >>
    /\ regs[18] = 154 /\ regs[19] = 1 /\ regs[20] = 0 /\ regs[21] = 0
    /\ regs[66] = 255 /\ regs[67] = 15

\* the sleep bit of a MODE1 value: bit 4, value 0x10
SleepBit(v) == (v \div 16) % 2

\* the data of the last write to register reg in the sequence w
LastWrittenTo(w, reg) ==
    w[CHOOSE i \in DOMAIN w :
          /\ w[i][1] = reg
          /\ \A j \in DOMAIN w : (j > i) => w[j][1] # reg][2]

\* C16: when the construction of the PCA9685 driver returns, the soft reset
\* has written the reset value to MODE1 first and the value written to MODE1
\* last has the sleep bit cleared.
C16_SoftResetClearsSleep ==
    pcaOp.op = "init" =>
        /\ pwrites[Caller][1] = <<REGISTER_MODE1, 16>>
        /\ SleepBit(LastWrittenTo(pwrites[Caller], REGISTER_MODE1)) = 0

\* C17: among the bus writes of one set_pwm_freq call, a MODE1 write with the
\* sleep bit set precedes the PRESCALE write, and the last MODE1 write has
\* the sleep bit cleared.
C17_PrescaleWrittenAsleep ==
    pcaOp.op = "set_pwm_freq" =>
        LET w == pwrites[Caller]
        IN  /\ \E i, j \in DOMAIN w :
                  /\ i < j
                  /\ w[i][1] = REGISTER_MODE1 /\ SleepBit(w[i][2]) = 1
                  /\ w[j][1] = REGISTER_PRESCALE
            /\ SleepBit(LastWrittenTo(w, REGISTER_MODE1)) = 0

\* C18: the value set_pwm_freq writes to the PRESCALE register is a valid
\* register byte, never negative and never above 255, for every frequency
\* above 0.
C18_PrescaleIsRegisterByte ==
    (pcaOp.op = "set_pwm_freq" /\ pcaOp.arg > 0) =>
        LET v == LastWrittenTo(pwrites[Caller], REGISTER_PRESCALE)
        IN  0 <= v /\ v <= 255

C20_IndexOutOfRangeRejected ==
    [][(pixLeft' < pixLeft /\ pixOp'.op = "set_pixel" /\ pixOp'.idx >= Count) =>
          /\ pixErr' = "IndexError"
          /\ led_color' = led_color
          /\ led_original' = led_original
          /\ lastFrame' = lastFrame
          /\ lastSender' = lastSender
          /\ inflight' = inflight]_vars

\* index pixel_count was rejected on a strip that holds colours
C20_Witness ==
    /\ pixOp.op = "set_pixel"
    /\ pixOp.idx = Count
    /\ pixErr = "IndexError"
    /\ led_color # BlackFrame

(***************************************************************************)
(* Claims about the bit packers.                                           *)
(***************************************************************************)
\* the bit an 8-bit symbol stands for, by inverse table lookup (-1: none)
BitOfSymbol(sym) == IF sym = 248 THEN 1 ELSE IF sym = 128 THEN 0 ELSE 0 - 1

\* the byte the k-th group of eight symbols stands for, first symbol highest
DecodeByte8(out, k) ==
    LET b(j) == BitOfSymbol(out[8 * (k - 1) + j])
    IN  b(1) * 128 + b(2) * 64 + b(3) * 32 + b(4) * 16
          + b(5) * 8 + b(6) * 4 + b(7) * 2 + b(8)

\* C21: the 8-bit packer returns 8 bytes per input byte, each 0xF8 (bit 1)
\* or 0x80 (bit 0), most significant bit first: decoding every group of
\* eight symbols by inverse table lookup gives back the input byte.
C21_Pack8bitDecodes ==
    encMode = "8bit" =>
        /\ Len(encOut) = 8 * Len(encIn)
        /\ \A p \in 1 .. Len(encOut) : encOut[p] \in {128, 248}
        /\ \A k \in 1 .. Len(encIn) : DecodeByte8(encOut, k) = encIn[k]

\* 0xAA packed as F8 80 F8 80 F8 80 F8 80
C21_Witness ==
    /\ encMode = "8bit"
    /\ encIn = <<170>>
    /\ encOut = <<248, 128, 248, 128, 248, 128, 248, 128>>

\* the bit pair of the input the p-th output byte stands for, the most
\* significant pair of each byte first
PairAt(in, p) == (in[((p - 1) \div 4) + 1] \div (4 ^ (3 - ((p - 1) % 4)))) % 4

\* C22: the 4-bit packer returns 4 bytes per input byte, half of what the
\* 8-bit packer returns, one per bit pair with the most significant pair
\* first, and two different bit pairs never give the same output byte.
C22_Pack4bitPairsDistinct ==
    encMode = "4bit" =>
        /\ Len(encOut) = 4 * Len(encIn)
        /\ 2 * Len(encOut) = Len(Pack8bit(encIn))
        /\ \A p, q \in 1 .. Len(encOut) :
              PairAt(encIn, p) # PairAt(encIn, q) => encOut[p] # encOut[q]

\* 0x1B = 00 01 10 11 packed as 88 8E E8 EE
C22_Witness ==
    /\ encMode = "4bit"
    /\ encIn = <<27>>
    /\ encOut = <<136, 142, 232, 238>>

(***************************************************************************)
(* Claims about the continuous animation.                                  *)
(***************************************************************************)
\* C23: in every frame the continuous animation composes, pixel i of the
\* strip holds the wheel colour of position p = (i * 256 div count + offset)
\* mod 256, the wheel being (255 - 3p, 3p, 0) for p < 85, (0, 255 - 3q, 3q)
\* with q = p - 85 for 85 <= p < 170, and (3q, 0, 255 - 3q) with q = p - 170
\* otherwise (at full brightness the colour is stored as it is).
C23_WheelColourOfPixel ==
    (apc = "send" /\ brightness = 255) =>
        \A i \in Pixels :
            LET p == ((i * 256) \div Count + start) % 256
            IN  led_original[i] =
                  IF p < 85 THEN <<255 - 3 * p, 3 * p, 0>>
                  ELSE IF p < 170 THEN <<0, 255 - 3 * (p - 85), 3 * (p - 85)>>
                  ELSE <<3 * (p - 170), 0, 255 - 3 * (p - 170)>>

\* the frame of offset 100 is composed: pixel 0 shows wheel position 100
C23_Witness ==
    /\ apc = "send"
    /\ start = 100
    /\ led_original[0] = <<0, 210, 45>>
    /\ led_color[0] = <<210, 0, 45>>

\* C24: when a pause() called right after a pause() has returned, the strip
\* is in the state the first one left: flag clear, every pixel black, and the
\* frame transmitted last black.
C24_PauseIdempotent ==
    (cpc = "idle" /\ lastCall = "pause" /\ prevCall = "pause") =>
        /\ flag = FALSE
        /\ light_mode = "none"
        /\ led_color = BlackFrame
        /\ led_original = BlackFrame
        /\ lastFrame = BlackFrame

\* the same on a strip whose animation thread was never started: every step
\* of the second pause() leaves the pixels and the last frame as they are
PauseTwiceUnstarted ==
    [][(lastCall' = "pause" /\ prevCall' = "pause" /\ apc = "unstarted") =>
          /\ flag' = FALSE
          /\ light_mode' = "none"
          /\ led_color' = led_color
          /\ led_color' = BlackFrame
          /\ led_original' = BlackFrame
          /\ lastFrame' = lastFrame
          /\ lastFrame' = BlackFrame]_vars

\* C25: when the demo was asked for, every frame of its sequence has been
\* transmitted, once, by the time the continuous loop transmits a frame.
C25_DemoTransmittedBeforeLoop ==
    (demoReq /\ lastSender = "anim") => demoXfers = DemoFrames

\* C26: a configuration in which a servo entry lacks channel, min_pulse,
\* max_pulse or default_angle never gets the bus opened nor a register
\* written, and the construction it was given to ends in a KeyError.
C26_MissingKeyFailsBeforeBus ==
    drv.missing.keys # {} =>
        /\ ~drv.busOpen
        /\ drv.busWrites = 0
        /\ drv.phase \in {"new", "failed"}
        /\ drv.phase = "failed" => drv.err = "KeyError"

C26_Witness ==
    /\ drv.missing = [name |-> "shoulder", keys |-> {"min_pulse"}]
    /\ drv.phase = "failed"
    /\ drv.err = "KeyError"
    /\ ~drv.busOpen
    /\ drv.busWrites = 0

\* C27: once the with-block of a ServoDriver has been left, normally or by
\* an exception, the bus is no longer held.
C27_BusReleasedOnExit == drv.phase = "exited" => ~drv.busOpen

\* the table has min_pulse <= max_pulse and min_angle < max_angle throughout
TableWellFormed ==
    \A i \in DOMAIN ServoNames :
        min_pulse(i) <= max_pulse(i) /\ min_angle(i) < max_angle(i)

\* C28: with such a table, the value last commanded on the channel of each
\* configured servo lies within that servo's [min_pulse, max_pulse],
\* whatever calls were made.
C28_CommandedPulseWithinLimits ==
    TableWellFormed =>
        \A i \in DOMAIN ServoNames :
            LET dc == duty_cycle[channel_map(ServoNames[i])]
            IN  dc # -1 => (min_pulse(i) <= dc /\ dc <= max_pulse(i))

C28_Witness ==
    /\ drv.table = "narrow"
    /\ opsLeft = 0
    /\ lastOp.op = "set_angle_by_channel" /\ lastOp.channel = 15
    /\ lastOp.arg = 200
    /\ duty_cycle[15] = 4095
    /\ duty_cycle[5] = 304
    /\ duty_cycle[4] = 300

\* C30: set_angle_by_channel on a channel the table assigns to a servo
\* commands on it the pulse set_angle commands for that servo and the angle;
\* on any other channel it raises ValueError and commands nothing.
C30_ByChannelMatchesByName ==
    [][(lastOp'.op = "set_angle_by_channel" /\ opsLeft' < opsLeft) =>
          LET ch == lastOp'.channel
              owners == {n \in DOMAIN ServoDefs : ServoDefs[n].channel = ch}
          IN  IF owners # {}
                THEN \E n \in owners :
                        /\ serr' = "ok"
                        /\ duty_cycle' =
                             [duty_cycle EXCEPT ![ch] =
                                 PulseFromAngle(ClampAngle(lastOp'.arg, servo_index(n)),
                                                servo_index(n))]
                ELSE /\ serr' = "ValueError"
                     /\ duty_cycle' = duty_cycle]_vars

\* the frame is black throughout, or the rainbow frame of one offset
WholeFrame(f) == f = BlackFrame \/ \E o \in 0 .. (WheelSize - 1) : f = RainbowFrame(o)

\* C29: every frame transmitted is a whole frame, never one in which some
\* pixels come from the black fill of pause() and others from the rainbow
\* computation of the animation thread.
C29_TransmittedFramesWhole == WholeFrame(lastFrame)

====
